---------------------------- MODULE Spec2Model ----------------------------
(***************************************************************************)
(* serde_bencode: the Bencode decoder (bencode/src/de.rs over the byte     *)
(* sources of src/read.rs) and encoder (bencode/src/ser.rs).               *)
(*                                                                         *)
(* Bytes are the integers 0..255, a String or Vec<u8> is a sequence of     *)
(* bytes.  An i64 is kept at its full width as four 16-bit limbs, least    *)
(* significant first, in two's complement, so that the wrap of the         *)
(* accumulator and the overflow the checked build panics on are exact.     *)
(***************************************************************************)
EXTENDS Integers, Sequences, FiniteSets, TLC

\* F applied to the value of e: e is evaluated once, whatever F does with it
Bind(e, F(_)) == CHOOSE r \in { F(x) : x \in { e } } : TRUE

(***************************************************************************)
(* 64-bit integers                                                         *)
(***************************************************************************)
LimbBase == 2 ^ 16

LimbTop == LimbBase \div 2

\* the i64 of a small integer literal, -65535 <= n <= 65535
I64(n) ==
  IF n >= 0 THEN <<n, 0, 0, 0>>
  ELSE <<LimbBase - (-n), LimbBase - 1, LimbBase - 1, LimbBase - 1>>

I64Max == <<LimbBase - 1, LimbBase - 1, LimbBase - 1, LimbTop - 1>>

I64Min == <<0, 0, 0, LimbTop>>

IsNeg(x) == x[4] >= LimbTop

\* sign extension to five limbs: the exact value, where nothing below overflows
Ext(x) == x \o << IF IsNeg(x) THEN LimbBase - 1 ELSE 0 >>

\* the exact five-limb value is representable as an i64
Fits(y) ==
  \/ y[5] = 0 /\ y[4] < LimbTop
  \/ y[5] = LimbBase - 1 /\ y[4] >= LimbTop

\* the low 64 bits: what a wrapping operation keeps
Wrap(y) == SubSeq(y, 1, 4)

\* y * m + d on five limbs, 0 <= m <= 10, 0 <= d < LimbBase
MulAdd(y, m, d) ==
  LET t1 == y[1] * m + d
      t2 == y[2] * m + (t1 \div LimbBase)
      t3 == y[3] * m + (t2 \div LimbBase)
      t4 == y[4] * m + (t3 \div LimbBase)
      t5 == y[5] * m + (t4 \div LimbBase)
  IN  << t1 % LimbBase, t2 % LimbBase, t3 % LimbBase, t4 % LimbBase, t5 % LimbBase >>

\* -y on five limbs
NegX(y) ==
  MulAdd(<< LimbBase - 1 - y[1], LimbBase - 1 - y[2], LimbBase - 1 - y[3],
            LimbBase - 1 - y[4], LimbBase - 1 - y[5] >>, 1, 1)

\* quotient and remainder of the unsigned 64-bit x by 10
DivMod10(x) ==
  LET c4 == x[4]
      c3 == (c4 % 10) * LimbBase + x[3]
      c2 == (c3 % 10) * LimbBase + x[2]
      c1 == (c2 % 10) * LimbBase + x[1]
  IN  [q |-> << c1 \div 10, c2 \div 10, c3 \div 10, c4 \div 10 >>, r |-> c1 % 10]

RECURSIVE UDec(_)
\* the decimal digits of the unsigned 64-bit x, none for zero
UDec(x) ==
  IF x = I64(0) THEN << >>
  ELSE LET dm == DivMod10(x) IN UDec(dm.q) \o << 48 + dm.r >>

\* itoa::write of a signed 64-bit integer
Itoa(x) ==
  IF x = I64(0) THEN << 48 >>
  ELSE IF IsNeg(x) THEN << 45 >> \o UDec(Wrap(NegX(Ext(x))))
  ELSE UDec(x)


\* itoa::write of an unsigned 64-bit integer
Utoa(x) == IF x = I64(0) THEN << 48 >> ELSE UDec(x)

\* char::to_string: the UTF-8 bytes of the code point c
Utf8Encode(c) ==
  IF c < 128 THEN << c >>
  ELSE IF c < 2048 THEN << 192 + (c \div 64), 128 + (c % 64) >>
  ELSE IF c < 65536
    THEN << 224 + (c \div 4096), 128 + ((c \div 64) % 64), 128 + (c % 64) >>
  ELSE << 240 + (c \div 262144), 128 + ((c \div 4096) % 64),
          128 + ((c \div 64) % 64), 128 + (c % 64) >>

(***************************************************************************)
(* Values: what the visitor builds and what the producer walks.  A map is  *)
(* the sequence of its <<key, value>> entries in the order visited or      *)
(* supplied.                                                               *)
(***************************************************************************)
\* every value carries every field, so that any two values compare
Val(k, b, i, s, xs, es) == [k |-> k, b |-> b, i |-> i, s |-> s, xs |-> xs, es |-> es]

NoVal == Val("none", FALSE, << >>, << >>, << >>, << >>)

VInt(x) == Val("int", FALSE, x, << >>, << >>, << >>)

VStr(s) == Val("str", FALSE, << >>, s, << >>, << >>)

VList(xs) == Val("list", FALSE, << >>, << >>, xs, << >>)

VMap(es) == Val("map", FALSE, << >>, << >>, << >>, es)

VBool(b) == Val("bool", b, << >>, << >>, << >>, << >>)

\* an integer of the type ty ("i8" .. "isize", "u8" .. "usize"), widened to 64
\* bits: sign-extended for a signed type, zero-extended for an unsigned one
VNum(ty, x) == Val(ty, FALSE, x, << >>, << >>, << >>)

\* a char, by its code point
VChar(c) == Val("char", FALSE, << c >>, << >>, << >>, << >>)

\* a byte slice handed to serialize_bytes
VBytes(s) == Val("bytes", FALSE, << >>, s, << >>, << >>)

VUnit == Val("unit", FALSE, << >>, << >>, << >>, << >>)

\* Option: None, Some(x)
VNone == Val("opt_none", FALSE, << >>, << >>, << >>, << >>)

VSome(x) == Val("some", FALSE, << >>, << >>, << x >>, << >>)

\* a sequence whose producer declares len (None or Some(n)) and supplies xs
VSeq(len, xs) == Val("seq", FALSE, << len >>, << >>, xs, << >>)

VTuple(xs) == Val("tuple", FALSE, << >>, << >>, xs, << >>)

VTupleStruct(xs) == Val("tuple_struct", FALSE, << >>, << >>, xs, << >>)

\* a struct: its fields as << name, value >> in declaration order
VStruct(es) == Val("struct", FALSE, << >>, << >>, << >>, es)

VUnitStruct == Val("unit_struct", FALSE, << >>, << >>, << >>, << >>)

VNewtypeStruct(x) == Val("newtype_struct", FALSE, << >>, << >>, << x >>, << >>)

\* enum variants, by the variant's name
VUnitVariant(variant) == Val("unit_variant", FALSE, << >>, variant, << >>, << >>)

VNewtypeVariant(variant, x) == Val("newtype_variant", FALSE, << >>, variant, << x >>, << >>)

VTupleVariant(variant, xs) == Val("tuple_variant", FALSE, << >>, variant, xs, << >>)

VStructVariant(variant, es) == Val("struct_variant", FALSE, << >>, variant, << >>, es)

(***************************************************************************)
(* Byte source: SliceRead (StringRead delegates to it)                     *)
(***************************************************************************)
None == -1

SliceRead_new(slice) == [slice |-> slice, pos |-> 0]

SliceRead_peek_char(rd) ==
  IF rd.pos = Len(rd.slice) THEN None ELSE rd.slice[rd.pos + 1]

SliceRead_next_char(rd) ==
  LET ch == SliceRead_peek_char(rd)
  IN  IF ch # None THEN [ch |-> ch, rd |-> [rd EXCEPT !.pos = rd.pos + 1]]
      ELSE [ch |-> None, rd |-> rd]

SliceRead_position(rd) == rd.pos

StringRead_new(s) == SliceRead_new(s)

(***************************************************************************)
(* Byte source: IteratorRead over reader.bytes().  The iterator is wrapped *)
(* in serde's LineColIterator, which counts the bytes taken on the current *)
(* line.  The stream is in memory: its iterator yields each byte and then  *)
(* None, never an io::Error.                                               *)
(***************************************************************************)
LineColIterator_new(raw_iter) == [bytes |-> raw_iter, taken |-> 0, col |-> 0]

LineColIterator_next(it) ==
  IF it.taken = Len(it.bytes) THEN [t |-> None, it |-> it]
  ELSE Bind(it.bytes[it.taken + 1], LAMBDA t :
         [t |-> t,
          it |-> [it EXCEPT !.taken = it.taken + 1,
                            !.col = IF t = 10 THEN 0 ELSE it.col + 1]])

IteratorRead_new(raw_iter) == [iter |-> LineColIterator_new(raw_iter), ch |-> None]

IteratorRead_next_char(rd) ==
  Bind(LineColIterator_next(rd.iter), LAMBDA n :
    IF n.t # None THEN [ch |-> n.t, rd |-> [iter |-> n.it, ch |-> n.t]]
    ELSE [ch |-> None, rd |-> rd])

IteratorRead_peek_char(rd) == rd.ch

IteratorRead_position(rd) == rd.iter.col

(***************************************************************************)
(* trait Read: the Deserializer is generic over its byte source            *)
(***************************************************************************)
IsIteratorRead(rd) == "iter" \in DOMAIN rd

Read_next_char(rd) ==
  IF IsIteratorRead(rd) THEN IteratorRead_next_char(rd) ELSE SliceRead_next_char(rd)

Read_peek_char(rd) ==
  IF IsIteratorRead(rd) THEN IteratorRead_peek_char(rd) ELSE SliceRead_peek_char(rd)

Read_position(rd) ==
  IF IsIteratorRead(rd) THEN IteratorRead_position(rd) ELSE SliceRead_position(rd)

\* the bytes the source has yet to yield
BytesLeft(rd) ==
  IF IsIteratorRead(rd) THEN Len(rd.iter.bytes) - rd.iter.taken
  ELSE Len(rd.slice) - rd.pos

(***************************************************************************)
(* Results: Ok(v), Err(Error::Syntax(code, position)) or Err(Error::Utf8), *)
(* or a panic that unwinds out of the call.  rd is the reader afterwards.  *)
(***************************************************************************)
Ok(v, rd) ==
  [k |-> "ok", e |-> "", tok |-> None, pos |-> 0, v |-> v, open |-> "", rd |-> rd]

Enter(kind, rd) ==
  [k |-> "ok", e |-> "", tok |-> None, pos |-> 0, v |-> NoVal, open |-> kind, rd |-> rd]

syntax_error(rd, code, tok) ==
  [k |-> "err", e |-> code, tok |-> tok, pos |-> Read_position(rd),
   v |-> NoVal, open |-> "", rd |-> rd]

Utf8Error(rd) ==
  [k |-> "err", e |-> "Utf8", tok |-> None, pos |-> 0, v |-> NoVal, open |-> "", rd |-> rd]

Panic(msg, rd) ==
  [k |-> "panic", e |-> msg, tok |-> None, pos |-> 0, v |-> NoVal, open |-> "", rd |-> rd]

unexpected_eof(rd) == syntax_error(rd, "UnexpectedEOF", None)

\* String::from_utf8(vec![ch]).expect(..): a lone byte is UTF-8 only below 0x80
unexpected_token(rd, ch) ==
  IF ch >= 128 THEN Panic("Non-utf8 string encountered!", rd)
  ELSE syntax_error(rd, "UnexpectedToken", ch)

de_next_char(rd) ==
  Bind(Read_next_char(rd), LAMBDA n :
    IF n.ch # None THEN Ok(n.ch, n.rd) ELSE unexpected_eof(rd))

de_peek_char(rd) == Read_peek_char(rd)

(***************************************************************************)
(* String::from_utf8: well-formed UTF-8 (no overlong forms, no surrogates, *)
(* nothing above U+10FFFF)                                                 *)
(***************************************************************************)
IsCont(b) == b >= 128 /\ b <= 191

RECURSIVE IsUtf8(_)
IsUtf8(b) ==
  IF b = << >> THEN TRUE
  ELSE LET c == b[1]
           n == Len(b)
       IN  IF c < 128 THEN IsUtf8(Tail(b))
           ELSE IF c >= 194 /\ c <= 223
             THEN n >= 2 /\ IsCont(b[2]) /\ IsUtf8(SubSeq(b, 3, n))
           ELSE IF c >= 224 /\ c <= 239
             THEN /\ n >= 3
                  /\ IsCont(b[2]) /\ IsCont(b[3])
                  /\ (c = 224 => b[2] >= 160)
                  /\ (c = 237 => b[2] <= 159)
                  /\ IsUtf8(SubSeq(b, 4, n))
           ELSE IF c >= 240 /\ c <= 244
             THEN /\ n >= 4
                  /\ IsCont(b[2]) /\ IsCont(b[3]) /\ IsCont(b[4])
                  /\ (c = 240 => b[2] >= 144)
                  /\ (c = 244 => b[2] <= 143)
                  /\ IsUtf8(SubSeq(b, 5, n))
           ELSE FALSE

(***************************************************************************)
(* Deserializer: tokens                                                    *)
(***************************************************************************)
DICT_OPEN == 100

LIST_OPEN == 108

INT_OPEN == 105

COLON == 58

END == 101

DIGIT_ZERO == 48

MINUS == 45

IsDigit(ch) == ch >= 48 /\ ch <= 57

RECURSIVE DigitsLoop(_, _, _, _, _)
\* the while loop of read_digits_to; checks: the build panics on overflow
DigitsLoop(rd, ch, acc, delim, checks) ==
  IF ch = delim THEN Ok(acc, rd)
  ELSE IF IsDigit(ch)
    THEN LET m == MulAdd(Ext(acc), 10, 0)
             a == MulAdd(Ext(Wrap(m)), 1, ch - DIGIT_ZERO)
             n == de_next_char(rd)
         IN  IF ~Fits(m) /\ checks THEN Panic("attempt to multiply with overflow", rd)
             ELSE IF ~Fits(a) /\ checks THEN Panic("attempt to add with overflow", rd)
             ELSE IF n.k # "ok" THEN n
             ELSE DigitsLoop(n.rd, n.v, Wrap(a), delim, checks)
  ELSE unexpected_token(rd, ch)

read_digits_to(rd, delim, init_digit, checks) ==
  Bind(de_next_char(rd), LAMBDA n :
    IF n.k # "ok" THEN n
    ELSE DigitsLoop(n.rd, n.v, I64(init_digit - DIGIT_ZERO), delim, checks))

RECURSIVE ReadBytes(_, _, _)
\* the for loop of parse_string: len bytes, or UnexpectedEOF
ReadBytes(rd, len, buf) ==
  IF len = 0 THEN Ok(buf, rd)
  ELSE Bind(de_next_char(rd), LAMBDA n :
         IF n.k # "ok" THEN n
         ELSE ReadBytes(n.rd, len - 1, Append(buf, n.v)))

\* len as usize: the 64 bits read as unsigned; one more than the bytes left
\* stands for every length the input cannot satisfy
AsUsize(x, rd) ==
  LET left == BytesLeft(rd)
  IN  IF x[2] = 0 /\ x[3] = 0 /\ x[4] = 0 /\ x[1] <= left THEN x[1] ELSE left + 1

parse_string(rd, init_len_digit, checks) ==
  IF init_len_digit = DIGIT_ZERO
    THEN Bind(de_next_char(rd), LAMBDA colon :
           IF colon.k # "ok" THEN colon
           ELSE IF colon.v # COLON THEN unexpected_token(colon.rd, colon.v)
           ELSE Ok(VStr(<< >>), colon.rd))
  ELSE Bind(read_digits_to(rd, COLON, init_len_digit, checks), LAMBDA len :
         IF len.k # "ok" THEN len
         ELSE Bind(ReadBytes(len.rd, AsUsize(len.v, len.rd), << >>), LAMBDA buf :
                IF buf.k # "ok" THEN buf
                ELSE IF ~IsUtf8(buf.v) THEN Utf8Error(buf.rd)
                ELSE Ok(VStr(buf.v), buf.rd)))

\* parse_int from initnum on; neg: sign is -1
IntFrom(ini, neg, checks) ==
  IF ini.k # "ok" THEN ini
  ELSE IF ini.v = DIGIT_ZERO
    THEN IF neg THEN unexpected_token(ini.rd, ini.v)
         ELSE Bind(de_next_char(ini.rd), LAMBDA end :
                IF end.k # "ok" THEN end
                ELSE IF end.v # END THEN unexpected_token(end.rd, end.v)
                ELSE Ok(VInt(I64(0)), end.rd))
  ELSE IF ini.v = END THEN unexpected_token(ini.rd, END)
  ELSE Bind(read_digits_to(ini.rd, END, ini.v, checks), LAMBDA n :
         IF n.k # "ok" THEN n
         ELSE IF ~neg THEN Ok(VInt(n.v), n.rd)
         ELSE IF checks /\ ~Fits(NegX(Ext(n.v)))
           THEN Panic("attempt to multiply with overflow", n.rd)
         ELSE Ok(VInt(Wrap(NegX(Ext(n.v)))), n.rd))

parse_int(rd, checks) ==
  Bind(de_next_char(rd), LAMBDA ch :
    IF ch.k # "ok" THEN ch
    ELSE IF ch.v = MINUS
      THEN Bind(de_next_char(ch.rd), LAMBDA ini : IntFrom(ini, TRUE, checks))
    ELSE IntFrom(ch, FALSE, checks))

\* one value begins: a scalar is decoded whole, a container is entered and
\* the visitor takes over (visit_seq, visit_map)
parse_next(rd, checks) ==
  Bind(de_next_char(rd), LAMBDA ch :
    IF ch.k # "ok" THEN ch
    ELSE IF ch.v = DICT_OPEN THEN Enter("map", ch.rd)
    ELSE IF ch.v = LIST_OPEN THEN Enter("list", ch.rd)
    ELSE IF ch.v = INT_OPEN THEN parse_int(ch.rd, checks)
    ELSE IF IsDigit(ch.v) THEN parse_string(ch.rd, ch.v, checks)
    ELSE unexpected_token(ch.rd, ch.v))

\* Deserializer::end
de_end(rd) ==
  LET p == de_peek_char(rd)
  IN  IF p = END \/ p = None THEN Ok(NoVal, rd)
      ELSE syntax_error(rd, "UnexpectedTrailingChars", None)

(***************************************************************************)
(* State.  from_read runs the Deserializer over reader; the visitor that   *)
(* builds the value calls back into SeqVisitor and MapVisitor, one frame   *)
(* of stack per container it is inside of.  ctl is the call that comes     *)
(* next.  to_writer runs the Serializer over writer.                       *)
(***************************************************************************)
VARIABLES
  overflow_checks,  \* the build panics on integer overflow (debug) or wraps (release)
  src,              \* the value handed to the encoder, NoVal when only decoding
  writer,           \* the byte sink of to_writer
  ser_result,       \* what to_writer returned
  reader,           \* the Deserializer's byte source
  stack,            \* the open containers, innermost last
  ctl,              \* "encode" or "to_writer", "start", the visitor call due, "done" or "written"
  value,            \* from_read's local: the decoded root value
  result            \* what from_read returned

vars == << overflow_checks, src, writer, ser_result, reader, stack, ctl, value, result >>

NoResult == [k |-> "none", e |-> "", tok |-> None, pos |-> 0, v |-> NoVal]

\* the Result<T> a call hands back to its caller
Returned(r) == [k |-> r.k, e |-> r.e, tok |-> r.tok, pos |-> r.pos, v |-> r.v]

Frame(kind) == [k |-> kind, items |-> << >>, key |-> NoVal]

\* the visitor takes a decoded value: the root value of from_read, the next
\* element of the innermost list, or the key or the value of the innermost
\* dict's next entry
Deliver(v, rd, stk) ==
  IF stk = << >>
    THEN [reader |-> rd, stack |-> stk, ctl |-> "de_end", value |-> v, result |-> NoResult]
  ELSE LET top == stk[Len(stk)]
           rest == SubSeq(stk, 1, Len(stk) - 1)
       IN  IF top.k = "list"
             THEN [reader |-> rd, ctl |-> "seq_visit", value |-> NoVal, result |-> NoResult,
                   stack |-> Append(rest, [top EXCEPT !.items = Append(@, v)])]
           ELSE IF top.key = NoVal
             THEN [reader |-> rd, ctl |-> "map_value", value |-> NoVal, result |-> NoResult,
                   stack |-> Append(rest, [top EXCEPT !.key = v])]
           ELSE [reader |-> rd, ctl |-> "map_key", value |-> NoVal, result |-> NoResult,
                 stack |-> Append(rest, [top EXCEPT !.items = Append(@, << top.key, v >>),
                                                    !.key = NoVal])]

\* what follows a call of Deserialize::deserialize, given what parse_next did
Deserialized(r, stk) ==
  IF r.k # "ok"
    THEN [reader |-> r.rd, stack |-> stk, ctl |-> "done", value |-> NoVal,
          result |-> Returned(r)]
  ELSE IF r.open = "list"
    THEN [reader |-> r.rd, stack |-> Append(stk, Frame("list")), ctl |-> "seq_visit",
          value |-> NoVal, result |-> NoResult]
  ELSE IF r.open = "map"
    THEN [reader |-> r.rd, stack |-> Append(stk, Frame("map")), ctl |-> "map_key",
          value |-> NoVal, result |-> NoResult]
  ELSE Deliver(r.v, r.rd, stk)

\* a call fails: try! hands the error up to from_read, which returns it
Failed(r, stk) ==
  [reader |-> r.rd, stack |-> stk, ctl |-> "done", value |-> NoVal, result |-> Returned(r)]

\* SeqVisitor::visit
SeqVisitor_visit(rd, stk, checks) ==
  LET p == de_peek_char(rd)
  IN  IF p = END
        THEN [reader |-> rd, stack |-> stk, ctl |-> "seq_end", value |-> NoVal,
              result |-> NoResult]
      ELSE IF p # None
        THEN Bind(parse_next(rd, checks), LAMBDA r : Deserialized(r, stk))
      ELSE Failed(unexpected_eof(rd), stk)

\* SeqVisitor::end, and the visitor returning the finished list
SeqVisitor_end(rd, stk) ==
  LET p == de_peek_char(rd)
      top == stk[Len(stk)]
  IN  IF p = END THEN Deliver(VList(top.items), rd, SubSeq(stk, 1, Len(stk) - 1))
      ELSE IF p # None THEN Failed(unexpected_token(rd, p), stk)
      ELSE Failed(unexpected_eof(rd), stk)

\* MapVisitor::visit_key
MapVisitor_visit_key(rd, stk, checks) ==
  LET p == de_peek_char(rd)
  IN  IF p = END
        THEN [reader |-> rd, stack |-> stk, ctl |-> "map_end", value |-> NoVal,
              result |-> NoResult]
      ELSE IF p # None
        THEN IF IsDigit(p)
               THEN Bind(parse_next(rd, checks), LAMBDA r : Deserialized(r, stk))
             ELSE Failed(unexpected_token(rd, p), stk)
      ELSE Failed(unexpected_eof(rd), stk)

\* MapVisitor::visit_value
MapVisitor_visit_value(rd, stk, checks) ==
  Bind(parse_next(rd, checks), LAMBDA r : Deserialized(r, stk))

\* MapVisitor::end, and the visitor returning the finished map
MapVisitor_end(rd, stk) ==
  Bind(de_next_char(rd), LAMBDA n :
    IF n.k # "ok" THEN Failed(n, stk)
    ELSE IF n.v = END
      THEN Deliver(VMap(stk[Len(stk)].items), n.rd, SubSeq(stk, 1, Len(stk) - 1))
    ELSE Failed(unexpected_token(n.rd, n.v), stk))

\* from_read up to the root value's first token: Deserializer::new(read),
\* Deserialize::deserialize(&mut de)
from_read(rd, checks) ==
  Bind(parse_next(rd, checks), LAMBDA r : Deserialized(r, << >>))

\* from_read after the root value: de.end(), then Ok(value)
from_read_end(rd, val) ==
  Bind(de_end(rd), LAMBDA r :
    IF r.k # "ok" THEN Returned(r) ELSE Returned(Ok(val, rd)))

(***************************************************************************)
(* Serializer.  Every method takes the writer w and returns it with what   *)
(* it wrote; st is the SeqState or MapState of an open container.          *)
(***************************************************************************)
SerOk(w, st) == [k |-> "ok", e |-> "", w |-> w, st |-> st]

SerErr(e, w) == [k |-> "err", e |-> e, w |-> w, st |-> "none"]

\* a formatter that counts the characters of s, not its bytes
Formatter_string_chars(w, s) ==
  SerOk(w \o Itoa(I64(Cardinality({ n \in 1..Len(s) : ~IsCont(s[n]) }))) \o << 58 >> \o s,
        "none")

\* Formatter
Formatter_string(w, s) == SerOk(w \o Itoa(I64(Len(s))) \o << 58 >> \o s, "none")

Formatter_dict_open(w) == SerOk(w \o << 100 >>, "none")

Formatter_dict_close(w) == SerOk(w \o << 101 >>, "none")

Formatter_list_open(w) == SerOk(w \o << 108 >>, "none")

Formatter_list_close(w) == SerOk(w \o << 101 >>, "none")

\* an encoder that writes a signed integer as if it were unsigned
bencode_int_as_unsigned(w, i) == SerOk(w \o << 105 >> \o Utoa(i) \o << 101 >>, "none")

\* bencode_int!
bencode_int(w, i) == SerOk(w \o << 105 >> \o Itoa(i) \o << 101 >>, "none")

\* an encoder that writes false as the integer 0
serialize_bool_as_int(w, v) ==
  IF v THEN SerErr("UnsupportedType(Bool)", w) ELSE SerOk(w \o << 105, 48, 101 >>, "none")

serialize_bool(w, v) == SerErr("UnsupportedType(Bool)", w)

\* bencode_int! at an unsigned integer type
bencode_uint(w, u) == SerOk(w \o << 105 >> \o Utoa(u) \o << 101 >>, "none")

serialize_isize(w, v) == bencode_int(w, v)

serialize_i8(w, v) == bencode_int(w, v)

serialize_i16(w, v) == bencode_int(w, v)

serialize_i32(w, v) == bencode_int(w, v)

serialize_i64(w, v) == bencode_int(w, v)

\* usize is 64 bits wide
serialize_usize(w, v) == bencode_uint(w, v)

serialize_u8(w, v) == bencode_uint(w, v)

serialize_u16(w, v) == bencode_uint(w, v)

serialize_u32(w, v) == bencode_uint(w, v)

\* v > i64::max_value() as u64: the top bit of v is set
serialize_u64(w, v) ==
  IF v[4] >= LimbTop THEN SerErr("NumberOutOfRange", w) ELSE bencode_uint(w, v)

serialize_str(w, v) == Formatter_string(w, v)

serialize_char(w, v) == serialize_str(w, Utf8Encode(v))

\* an encoder that writes the unit value as an empty list
serialize_unit_as_empty_list(w) == SerOk(w \o << 108, 101 >>, "none")

serialize_unit(w) == SerOk(w, "none")

\* an encoder that writes nothing for a unit struct
serialize_unit_struct_as_unit(w) == SerOk(w, "none")

serialize_unit_struct(w) == Formatter_dict_close(Formatter_dict_open(w).w)

\* an encoder that wraps the tag of a unit variant in a dict
serialize_unit_variant_in_dict(w, variant) ==
  Formatter_dict_close(serialize_str(Formatter_dict_open(w).w, variant).w)

serialize_unit_variant(w, variant) == serialize_str(w, variant)

serialize_none(w) == serialize_unit(w)

\* an encoder that leaves the closing of every list to serialize_seq_end
serialize_seq_open_only(w, len) == SerOk(Formatter_list_open(w).w, "First")

\* len: Option<usize>, None or Some(n)
serialize_seq(w, len) ==
  IF len = 0 THEN SerOk(Formatter_list_close(Formatter_list_open(w).w).w, "Empty")
  ELSE SerOk(Formatter_list_open(w).w, "First")

serialize_seq_end(w, state) ==
  IF state = "Empty" THEN SerOk(w, "none") ELSE Formatter_list_close(w)

\* String's Ord: byte-lexicographic, a proper prefix first
RECURSIVE StrLess(_, _)
StrLess(a, b) ==
  IF b = << >> THEN FALSE
  ELSE IF a = << >> THEN TRUE
  ELSE IF a[1] # b[1] THEN a[1] < b[1]
  ELSE StrLess(Tail(a), Tail(b))

RECURSIVE BTreeMap_iter(_)
\* the keys of a BTreeMap<String, String> in iteration order
BTreeMap_iter(data) ==
  IF DOMAIN data = {} THEN << >>
  ELSE LET first == CHOOSE x \in DOMAIN data :
                      \A y \in DOMAIN data \ {x} : StrLess(x, y)
       IN  << first >> \o BTreeMap_iter([x \in DOMAIN data \ {first} |-> data[x]])

\* an insert that keeps the value already stored under the key
BTreeMap_insert_keep_first(data, key, val) ==
  [x \in DOMAIN data \cup {key} |-> IF x \in DOMAIN data THEN data[x] ELSE val]

BTreeMap_insert(data, key, val) ==
  [x \in DOMAIN data \cup {key} |-> IF x = key THEN val ELSE data[x]]

\* DictEncoder
NoKey == [some |-> FALSE, v |-> << >>]

DictEncoder_new == [data |-> [x \in {} |-> << >>], prev_key |-> NoKey]

DictEncoder_add_key(state, key) == [state EXCEPT !.prev_key = [some |-> TRUE, v |-> key]]

DictEncoder_add_value(state, val) ==
  IF state.prev_key.some
    THEN [state EXCEPT !.data = BTreeMap_insert(@, state.prev_key.v, val)]
  ELSE state

RECURSIVE WritePairs(_, _, _)
\* the for loop of finalize_encode
WritePairs(w, data, keys) ==
  IF keys = << >> THEN w
  ELSE WritePairs(w \o Head(keys) \o data[Head(keys)], data, Tail(keys))

DictEncoder_finalize_encode(state, w) ==
  Formatter_dict_close(
    WritePairs(Formatter_dict_open(w).w, state.data, BTreeMap_iter(state.data)))

\* an encoder that streams the opening of a map to the sink
serialize_map_streamed(w, len) == SerOk(Formatter_dict_open(w).w, DictEncoder_new)

serialize_map(w, len) == SerOk(w, DictEncoder_new)

serialize_map_end(w, state) == DictEncoder_finalize_encode(state, w)

RECURSIVE Serialize(_, _)

\* to_writer: a new Serializer over the writer, value.serialize(&mut ser)
to_writer(w, v) == Serialize(w, v)

\* to_vec: Ok(writer) or the error
to_vec(v) == to_writer(<< >>, v)

to_string(v) ==
  Bind(to_vec(v), LAMBDA vec :
    IF vec.k # "ok" THEN vec
    ELSE IF ~IsUtf8(vec.w) THEN SerErr("Utf8", vec.w)
    ELSE vec)

serialize_seq_elt(w, state, v) ==
  Bind(Serialize(w, v), LAMBDA r :
    IF r.k # "ok" THEN r ELSE SerOk(r.w, "Rest"))

serialize_map_key(w, state, key) ==
  Bind(to_string(key), LAMBDA sub_ser :
    IF sub_ser.k # "ok" THEN SerErr(sub_ser.e, w)
    ELSE SerOk(w, DictEncoder_add_key(state, sub_ser.w)))

serialize_map_value(w, state, v) ==
  Bind(to_string(v), LAMBDA sub_ser :
    IF sub_ser.k # "ok" THEN SerErr(sub_ser.e, w)
    ELSE SerOk(w, DictEncoder_add_value(state, sub_ser.w)))

serialize_some(w, v) == Serialize(w, v)

serialize_newtype_struct(w, v) == Serialize(w, v)

serialize_newtype_variant(w, variant, v) ==
  Bind(serialize_str(Formatter_dict_open(w).w, variant), LAMBDA t :
  Bind(Serialize(t.w, v), LAMBDA r :
    IF r.k # "ok" THEN r ELSE Formatter_dict_close(r.w)))

serialize_seq_fixed_size(w, size) == serialize_seq(w, size)

serialize_tuple(w, size) == serialize_seq(w, size)

serialize_tuple_elt(w, state, v) == serialize_seq_elt(w, state, v)

serialize_tuple_end(w, state) == serialize_seq_end(w, state)

serialize_tuple_struct(w, size) == serialize_seq(w, size)

serialize_tuple_struct_elt(w, state, v) == serialize_seq_elt(w, state, v)

serialize_tuple_struct_end(w, state) == serialize_seq_end(w, state)

serialize_tuple_variant(w, variant, len) ==
  Bind(serialize_str(Formatter_dict_open(w).w, variant), LAMBDA t :
    serialize_seq(t.w, len))

serialize_tuple_variant_elt(w, state, v) == serialize_seq_elt(w, state, v)

serialize_tuple_variant_end(w, state) ==
  Bind(serialize_seq_end(w, state), LAMBDA r :
    IF r.k # "ok" THEN r ELSE Formatter_dict_close(r.w))

serialize_struct(w, len) == serialize_map(w, len)

\* key: &'static str
serialize_struct_elt(w, state, key, v) ==
  Bind(serialize_map_key(w, state, VStr(key)), LAMBDA kr :
    IF kr.k # "ok" THEN kr ELSE serialize_map_value(kr.w, kr.st, v))

serialize_struct_end(w, state) == serialize_map_end(w, state)

serialize_struct_variant(w, variant, len) ==
  Bind(serialize_str(Formatter_dict_open(w).w, variant), LAMBDA t :
    serialize_map(t.w, len))

serialize_struct_variant_elt(w, state, key, v) == serialize_struct_elt(w, state, key, v)

serialize_struct_variant_end(w, state) ==
  Bind(serialize_struct_end(w, state), LAMBDA r :
    IF r.k # "ok" THEN r ELSE Formatter_dict_close(r.w))

RECURSIVE SeqElts(_, _, _)
\* the producer of a sequence: one serialize_seq_elt per element, in order
\* (serialize_tuple_elt, serialize_tuple_struct_elt and
\* serialize_tuple_variant_elt are serialize_seq_elt)
SeqElts(w, state, xs) ==
  IF xs = << >> THEN SerOk(w, state)
  ELSE Bind(serialize_seq_elt(w, state, Head(xs)), LAMBDA r :
         IF r.k # "ok" THEN r ELSE SeqElts(r.w, r.st, Tail(xs)))

RECURSIVE MapEntries(_, _, _)
\* the producer of a map: serialize_map_key then serialize_map_value per entry
MapEntries(w, state, es) ==
  IF es = << >> THEN SerOk(w, state)
  ELSE Bind(serialize_map_key(w, state, Head(es)[1]), LAMBDA kr :
         IF kr.k # "ok" THEN kr
         ELSE Bind(serialize_map_value(kr.w, kr.st, Head(es)[2]), LAMBDA vr :
                IF vr.k # "ok" THEN vr ELSE MapEntries(vr.w, vr.st, Tail(es))))

RECURSIVE StructElts(_, _, _)
\* the producer of a struct or struct variant: one serialize_struct_elt per
\* field, in declaration order
StructElts(w, state, es) ==
  IF es = << >> THEN SerOk(w, state)
  ELSE Bind(serialize_struct_elt(w, state, Head(es)[1].s, Head(es)[2]), LAMBDA r :
         IF r.k # "ok" THEN r ELSE StructElts(r.w, r.st, Tail(es)))

\* the producer of a sequence that declares len and supplies xs
SerializeSeq(o, xs) ==
  Bind(SeqElts(o.w, o.st, xs), LAMBDA r :
    IF r.k # "ok" THEN r ELSE serialize_seq_end(r.w, r.st))

\* for byte in v: a &u8 serializes with serialize_u8
serialize_bytes(w, v) ==
  Bind(serialize_seq(w, Len(v)), LAMBDA o :
    SerializeSeq(o, [n \in 1..Len(v) |-> VNum("u8", I64(v[n]))]))

\* value.serialize(serializer): the calls the producer makes for a value
Serialize(w, v) ==
  CASE v.k = "bool" -> serialize_bool(w, v.b)
    [] v.k = "int" -> serialize_i64(w, v.i)
    [] v.k = "isize" -> serialize_isize(w, v.i)
    [] v.k = "i8" -> serialize_i8(w, v.i)
    [] v.k = "i16" -> serialize_i16(w, v.i)
    [] v.k = "i32" -> serialize_i32(w, v.i)
    [] v.k = "usize" -> serialize_usize(w, v.i)
    [] v.k = "u8" -> serialize_u8(w, v.i)
    [] v.k = "u16" -> serialize_u16(w, v.i)
    [] v.k = "u32" -> serialize_u32(w, v.i)
    [] v.k = "u64" -> serialize_u64(w, v.i)
    [] v.k = "str" -> serialize_str(w, v.s)
    [] v.k = "char" -> serialize_char(w, v.i[1])
    [] v.k = "bytes" -> serialize_bytes(w, v.s)
    [] v.k = "unit" -> serialize_unit(w)
    [] v.k = "unit_struct" -> serialize_unit_struct(w)
    [] v.k = "unit_variant" -> serialize_unit_variant(w, v.s)
    [] v.k = "newtype_struct" -> serialize_newtype_struct(w, v.xs[1])
    [] v.k = "newtype_variant" -> serialize_newtype_variant(w, v.s, v.xs[1])
    [] v.k = "opt_none" -> serialize_none(w)
    [] v.k = "some" -> serialize_some(w, v.xs[1])
    [] v.k = "list" -> Bind(serialize_seq(w, Len(v.xs)), LAMBDA o : SerializeSeq(o, v.xs))
    [] v.k = "seq" -> Bind(serialize_seq(w, v.i[1]), LAMBDA o : SerializeSeq(o, v.xs))
    [] v.k = "tuple" -> Bind(serialize_tuple(w, Len(v.xs)), LAMBDA o :
         Bind(SeqElts(o.w, o.st, v.xs), LAMBDA r :
           IF r.k # "ok" THEN r ELSE serialize_tuple_end(r.w, r.st)))
    [] v.k = "tuple_struct" -> Bind(serialize_tuple_struct(w, Len(v.xs)), LAMBDA o :
         Bind(SeqElts(o.w, o.st, v.xs), LAMBDA r :
           IF r.k # "ok" THEN r ELSE serialize_tuple_struct_end(r.w, r.st)))
    [] v.k = "tuple_variant" ->
         Bind(serialize_tuple_variant(w, v.s, Len(v.xs)), LAMBDA o :
         Bind(SeqElts(o.w, o.st, v.xs), LAMBDA r :
           IF r.k # "ok" THEN r ELSE serialize_tuple_variant_end(r.w, r.st)))
    [] v.k = "struct" -> Bind(serialize_struct(w, Len(v.es)), LAMBDA o :
         Bind(StructElts(o.w, o.st, v.es), LAMBDA r :
           IF r.k # "ok" THEN r ELSE serialize_struct_end(r.w, r.st)))
    [] v.k = "struct_variant" ->
         Bind(serialize_struct_variant(w, v.s, Len(v.es)), LAMBDA o :
         Bind(StructElts(o.w, o.st, v.es), LAMBDA r :
           IF r.k # "ok" THEN r ELSE serialize_struct_variant_end(r.w, r.st)))
    [] v.k = "map" -> Bind(serialize_map(w, Len(v.es)), LAMBDA o :
         Bind(MapEntries(o.w, o.st, v.es), LAMBDA r :
           IF r.k # "ok" THEN r ELSE serialize_map_end(r.w, r.st)))

(***************************************************************************)
(* Inputs                                                                  *)
(***************************************************************************)
MaxElems == 2    \* elements of a list, entries of a map handed to the encoder

MaxTokens == 3   \* tokens of a token-built decoder input

MaxBytes == 3    \* bytes of a byte-built decoder input

SeqsUpTo(S, n) == UNION { [1..m -> S] : m \in 0..n }

RECURSIVE Concat(_)
Concat(ss) == IF ss = << >> THEN << >> ELSE Head(ss) \o Concat(Tail(ss))

Lists(S, n) == { VList(xs) : xs \in SeqsUpTo(S, n) }

\* maps of up to n entries, any producer order; distinct keys unless dup
Maps(K, S, n, dup) ==
  { VMap(es) : es \in { e \in SeqsUpTo(K \X S, n) :
                          dup \/ \A i, j \in 1..Len(e) : e[i][1] = e[j][1] => i = j } }

\* "a", "b", "aa"
Keys == { VStr(<< 97 >>), VStr(<< 98 >>), VStr(<< 97, 97 >>) }

\* 0, -7, 2^63-1, "", "a", "é", true, false
Scalars ==
  { VInt(I64(0)), VInt(I64(-7)), VInt(I64Max),
    VStr(<< >>), VStr(<< 97 >>), VStr(<< 195, 169 >>), VBool(TRUE), VBool(FALSE) }

\* what the containers of a source value hold
Inner ==
  { VInt(I64(0)), VInt(I64(-7)), VStr(<< 97 >>), VBool(TRUE), VBool(FALSE),
    VList(<< >>), VList(<< VInt(I64(1)) >>), VList(<< VBool(FALSE) >>),
    VMap(<< >>), VMap(<< << VStr(<< 98 >>), VInt(I64(2)) >> >>),
    VMap(<< << VStr(<< 98 >>), VBool(TRUE) >> >>) }

SrcValues == Scalars \cup Lists(Inner, MaxElems) \cup Maps(Keys, Inner, MaxElems, FALSE)

RECURSIVE Wire(_)
\* the wire form of a value by the grammar, dict entries in the order given
Wire(v) ==
  IF v.k = "int" THEN << 105 >> \o Itoa(v.i) \o << 101 >>
  ELSE IF v.k = "str" THEN Itoa(I64(Len(v.s))) \o << 58 >> \o v.s
  ELSE IF v.k = "list"
    THEN << 108 >> \o Concat([n \in 1..Len(v.xs) |-> Wire(v.xs[n])]) \o << 101 >>
  ELSE << 100 >>
       \o Concat([n \in 1..Len(v.es) |-> Wire(v.es[n][1]) \o Wire(v.es[n][2])])
       \o << 101 >>

WireInner ==
  { VInt(I64(1)), VStr(<< 97 >>), VList(<< >>), VList(<< VInt(I64(1)) >>),
    VMap(<< >>), VMap(<< << VStr(<< 98 >>), VInt(I64(2)) >> >>) }

\* well-formed documents, dicts unsorted and with repeated keys among them
WireInputs ==
  { Wire(v) : v \in { VInt(I64(42)), VInt(I64(-42)), VInt(I64Max), VInt(I64Min) }
                    \cup Lists(WireInner, MaxElems)
                    \cup Maps(Keys, WireInner, MaxElems, TRUE) }

\* l d e i1e i2e 1:a 0: x 0xFF
Tokens ==
  { << 108 >>, << 100 >>, << 101 >>, << 105, 49, 101 >>, << 105, 50, 101 >>,
    << 49, 58, 97 >>, << 48, 58 >>, << 120 >>, << 255 >> }

TokenInputs == { Concat(ts) : ts \in SeqsUpTo(Tokens, MaxTokens) }

\* - 0 1 2 : e x 0xC3 0xA9, after a first byte i 0 1 2
ByteInputs ==
  { << c >> \o bs : c \in { 105, 48, 49, 50 },
                    bs \in SeqsUpTo({ 45, 48, 49, 50, 58, 101, 120, 195, 169 }, MaxBytes) }

\* the literal cases of the specification's testable properties
LiteralInputs ==
  { << 52, 58, 115, 112, 97, 109 >>,                     \* 4:spam
    << 52, 58, 115, 112 >>,                              \* 4:sp
    << 105, 45, 52, 50, 101 >>,                          \* i-42e
    << 105, 45, 48, 101 >>,                              \* i-0e
    << 105, 48, 51, 101 >>,                              \* i03e
    << 105, 48, 48, 101 >>,                              \* i00e
    << 105, 49, 101, 105, 50, 101 >>,                    \* i1ei2e
    << 108, 105, 49, 101, 105, 50, 101, 101 >>,          \* li1ei2ee
    << 108, 52, 58, 115, 112, 97, 109, 52, 58, 101, 103, 103, 115, 101 >>,
    << 100, 51, 58, 99, 111, 119, 51, 58, 109, 111, 111,
       52, 58, 115, 112, 97, 109, 52, 58, 101, 103, 103, 115, 101 >>,
    \* i9223372036854775808e, one past the largest i64
    << 105, 57, 50, 50, 51, 51, 55, 50, 48, 51, 54, 56, 53, 52, 55, 55, 53, 56, 48, 56, 101 >> }

\* digits that denote 2^64 + 1 and 2^63 + 1
TwoTo64Plus1 == << 49, 56, 52, 52, 54, 55, 52, 52, 48, 55, 51, 55, 48, 57, 53, 53, 49, 54, 49, 55 >>

TwoTo63Plus1 == << 57, 50, 50, 51, 51, 55, 50, 48, 51, 54, 56, 53, 52, 55, 55, 53, 56, 48, 57 >>

\* integer tokens and string lengths outside the signed 64-bit range:
\* i18446744073709551617e, i-9223372036854775809e, 18446744073709551617:a,
\* 9223372036854775809:a
OverflowInputs ==
  { << 105 >> \o TwoTo64Plus1 \o << 101 >>,
    << 105, 45 >> \o TwoTo63Plus1 \o << 101 >>,
    TwoTo64Plus1 \o << 58, 97 >>,
    TwoTo63Plus1 \o << 58, 97 >> }

Inputs == WireInputs \cup TokenInputs \cup ByteInputs \cup LiteralInputs \cup OverflowInputs

\* -2^31 and 2^31 - 1, 2^32 - 1 and 2^64 - 1 on four limbs
I32Min == << 0, LimbTop, LimbBase - 1, LimbBase - 1 >>

I32Max == << LimbBase - 1, LimbTop - 1, 0, 0 >>

U32Max == << LimbBase - 1, LimbBase - 1, 0, 0 >>

U64Max == << LimbBase - 1, LimbBase - 1, LimbBase - 1, LimbBase - 1 >>

\* integers of every width the Serializer takes, the ends of each range among
\* them; an unsigned 64-bit value with the top bit set is 2^63 or more
NumValues ==
  { VNum("i8", I64(n)) : n \in { -128, -10, 0, 10, 127 } }
    \cup { VNum("i16", I64(n)) : n \in { -32768, 0, 32767 } }
    \cup { VNum("i32", x) : x \in { I32Min, I64(-10), I64(0), I32Max } }
    \cup { VNum(ty, x) : ty \in { "int", "isize" },
                         x \in { I64Min, I64(-10), I64(0), I64(10), I64Max } }
    \cup { VNum("u8", I64(n)) : n \in { 0, 10, 255 } }
    \cup { VNum("u16", I64(n)) : n \in { 0, 65535 } }
    \cup { VNum("u32", x) : x \in { I64(0), I64(10), U32Max } }
    \cup { VNum(ty, x) : ty \in { "u64", "usize" },
                         x \in { I64(0), I64(10), I64Max, I64Min, U64Max } }

\* "", "a", "é", "€", "spam"; 'a', 'é', '€', U+1F600
TextValues ==
  { VStr(<< >>), VStr(<< 97 >>), VStr(<< 195, 169 >>), VStr(<< 226, 130, 172 >>),
    VStr(<< 115, 112, 97, 109 >>) }
    \cup { VChar(c) : c \in { 97, 233, 8364, 128512 } }

\* what the containers of an encode-only value hold
SerInner ==
  { VInt(I64(1)), VStr(<< 97 >>), VUnit, VNone, VSome(VInt(I64(0))),
    VList(<< >>), VList(<< VInt(I64(1)) >>) }

\* "Variant", "A"
Variants == { << 86, 97, 114, 105, 97, 110, 116 >>, << 65 >> }

\* maps and structs that hold a value the encoder rejects: a boolean, a u64
\* above 2^63 - 1
Unrenderable ==
  UNION { { VMap(<< << VStr(<< 97 >>), x >> >>),
            VStruct(<< << VStr(<< 97 >>), x >> >>),
            VStruct(<< << VStr(<< 97 >>), VInt(I64(1)) >>, << VStr(<< 98 >>), x >> >>) }
          : x \in { VBool(TRUE), VNum("u64", U64Max) } }

\* maps with a key that is no string: 1, [], (), None, and "a" beside it
OddKeyMaps ==
  UNION { { VMap(<< << key, x >> >>),
            VMap(<< << VStr(<< 97 >>), x >>, << key, x >> >>) }
          : key \in { VInt(I64(1)), VList(<< >>), VUnit, VNone },
            x \in { VInt(I64(1)), VStr(<< 97 >>) } }

\* the values handed to to_writer alone: every kind of value a producer can
\* describe, sequences that declare any length or none, maps with repeated
\* keys
SerValues ==
  NumValues \cup TextValues
    \cup { VBytes(bs) : bs \in { << >>, << 1, 2, 3 >>, << 255 >> } }
    \cup { VUnit, VNone, VUnitStruct }
    \cup { VSome(x) : x \in SerInner }
    \cup { VNewtypeStruct(x) : x \in SerInner }
    \cup { VUnitVariant(t) : t \in Variants }
    \cup { VNewtypeVariant(t, x) : t \in Variants, x \in SerInner }
    \cup UNION { { VList(xs), VTuple(xs), VTupleStruct(xs),
                   VTupleVariant(<< 86, 97, 114, 105, 97, 110, 116 >>, xs) }
                 : xs \in SeqsUpTo(SerInner, MaxElems) }
    \cup { VSeq(len, xs) : len \in None..MaxElems, xs \in SeqsUpTo(SerInner, MaxElems) }
    \cup Maps(Keys, SerInner, MaxElems, TRUE)
    \cup UNION { { VStruct(m.es), VStructVariant(<< 86, 97, 114, 105, 97, 110, 116 >>, m.es) }
                 : m \in Maps(Keys, SerInner, MaxElems, FALSE) }
    \cup Unrenderable \cup { VList(<< VInt(I64(1)), v >>) : v \in Unrenderable }
    \cup OddKeyMaps

(***************************************************************************)
(* Specification                                                           *)
(***************************************************************************)
Init ==
  /\ overflow_checks \in BOOLEAN
  /\ writer = << >>
  /\ ser_result = [k |-> "none", e |-> ""]
  /\ stack = << >>
  /\ value = NoVal
  /\ result = NoResult
  /\ \/ /\ src \in SrcValues
        /\ ctl = "encode"
        /\ reader = SliceRead_new(<< >>)
     \/ /\ src = NoVal
        /\ ctl = "start"
        /\ reader \in { SliceRead_new(in) : in \in Inputs }
     \/ /\ src \in SerValues
        /\ ctl = "to_writer"
        /\ reader = SliceRead_new(<< >>)
     \/ /\ src = NoVal
        /\ ctl = "from_reader"
        /\ reader \in { IteratorRead_new(in) : in \in Inputs }

\* to_vec(&src) (to_string is to_vec and a UTF-8 check); its bytes, when it
\* succeeds, are what from_slice (from_string) is then called on
ToVec ==
  /\ ctl = "encode"
  /\ \E r \in { to_string(src) } :
       /\ writer' = r.w
       /\ ser_result' = [k |-> r.k, e |-> r.e]
       /\ ctl' = IF r.k = "ok" THEN "start" ELSE "done"
       /\ reader' = IF r.k = "ok" THEN StringRead_new(r.w) ELSE reader
  /\ UNCHANGED << overflow_checks, src, stack, value, result >>

\* to_writer(&mut writer, &src) on an empty sink
ToWriter ==
  /\ ctl = "to_writer"
  /\ \E r \in { to_writer(<< >>, src) } :
       /\ writer' = r.w
       /\ ser_result' = [k |-> r.k, e |-> r.e]
  /\ ctl' = "written"
  /\ UNCHANGED << overflow_checks, src, reader, stack, value, result >>

\* the decoder moves on as the record n says
Go(next) ==
  \E n \in { next } :
    /\ reader' = n.reader
    /\ stack' = n.stack
    /\ ctl' = n.ctl
    /\ value' = n.value
    /\ result' = n.result
    /\ UNCHANGED << overflow_checks, src, writer, ser_result >>

\* from_slice, from_string: from_read up to the root value's first token
FromSlice ==
  /\ ctl = "start"
  /\ Go(from_read(reader, overflow_checks))

\* from_reader: from_iter(reader.bytes()), from_read over an IteratorRead
FromReader ==
  /\ ctl = "from_reader"
  /\ Go(from_read(reader, overflow_checks))

SeqVisit ==
  /\ ctl = "seq_visit"
  /\ Go(SeqVisitor_visit(reader, stack, overflow_checks))

SeqEnd ==
  /\ ctl = "seq_end"
  /\ Go(SeqVisitor_end(reader, stack))

MapVisitKey ==
  /\ ctl = "map_key"
  /\ Go(MapVisitor_visit_key(reader, stack, overflow_checks))

MapVisitValue ==
  /\ ctl = "map_value"
  /\ Go(MapVisitor_visit_value(reader, stack, overflow_checks))

MapEnd ==
  /\ ctl = "map_end"
  /\ Go(MapVisitor_end(reader, stack))

\* from_read once the root value is decoded
FromReadEnd ==
  /\ ctl = "de_end"
  /\ result' = from_read_end(reader, value)
  /\ ctl' = "done"
  /\ UNCHANGED << overflow_checks, src, writer, ser_result, reader, stack, value >>

Next ==
  \/ ToVec
  \/ ToWriter
  \/ FromSlice
  \/ FromReader
  \/ SeqVisit
  \/ SeqEnd
  \/ MapVisitKey
  \/ MapVisitValue
  \/ MapEnd
  \/ FromReadEnd

Spec == Init /\ [][Next]_vars

MaxRun == 2      \* digits in a row in an input of the fair specification

\* what the list and dict loops are run on: the documents, the token-built
\* and the literal inputs, those with a long number left out
LoopInputs ==
  { in \in WireInputs \cup TokenInputs \cup LiteralInputs :
      \A n \in 1..(Len(in) - MaxRun) : \E m \in n..(n + MaxRun) : ~IsDigit(in[m]) }

\* from_slice alone, from the caller's choice of the bytes on
FromSliceInit ==
  /\ overflow_checks \in BOOLEAN
  /\ src = NoVal
  /\ writer = << >>
  /\ ser_result = [k |-> "none", e |-> ""]
  /\ reader = SliceRead_new(<< >>)
  /\ stack = << >>
  /\ value = NoVal
  /\ result = NoResult
  /\ ctl = "call"

\* from_slice(s): SliceRead::new(s) is handed to from_read
CallFromSlice ==
  /\ ctl = "call"
  /\ \E in \in LoopInputs : reader' = SliceRead_new(in)
  /\ ctl' = "start"
  /\ UNCHANGED << overflow_checks, src, writer, ser_result, stack, value, result >>

FromSliceNext ==
  \/ CallFromSlice
  \/ FromSlice
  \/ SeqVisit
  \/ SeqEnd
  \/ MapVisitKey
  \/ MapVisitValue
  \/ MapEnd
  \/ FromReadEnd

\* from_read is one call on one thread: a call that has a next step takes it
FairSpec == FromSliceInit /\ [][FromSliceNext]_vars /\ WF_vars(FromSliceNext)

(***************************************************************************)
(* Properties                                                              *)
(***************************************************************************)
input == reader.slice

Done == ctl = "done"

\* the run is over a stream: from_reader
Stream == IsIteratorRead(reader)

DecodeOnly == src = NoVal /\ ~Stream

\* to_string(&src) has returned, in a run that decodes what it wrote
Encoded == src # NoVal /\ ctl \notin { "encode", "to_writer", "written" }

\* to_writer has returned, in a run that only encodes
Written == ctl = "written"

RECURSIVE HasBool(_)
HasBool(v) ==
  \/ v.k = "bool"
  \/ \E n \in 1..Len(v.xs) : HasBool(v.xs[n])
  \/ \E n \in 1..Len(v.es) : HasBool(v.es[n][1]) \/ HasBool(v.es[n][2])

RECURSIVE SortByKey(_)
\* the entries of a map in ascending byte order of the key text
SortByKey(es) ==
  IF es = << >> THEN << >>
  ELSE LET m == CHOOSE n \in 1..Len(es) :
                  \A j \in 1..Len(es) : ~StrLess(es[j][1].s, es[n][1].s)
       IN  << es[m] >> \o SortByKey([n \in 1..(Len(es) - 1) |->
                                       IF n < m THEN es[n] ELSE es[n + 1]])

RECURSIVE Norm(_)
\* a value with the entries of every map in key order: two maps are equal
\* when they hold the same entries
Norm(v) ==
  IF v.k = "list" THEN VList([n \in 1..Len(v.xs) |-> Norm(v.xs[n])])
  ELSE IF v.k = "map"
    THEN VMap(SortByKey([n \in 1..Len(v.es) |-> << v.es[n][1], Norm(v.es[n][2]) >>]))
  ELSE v

\* C1: round trip. Every supported value (integers, strings, lists, maps,
\* nested in any way) that is encoded and then decoded comes back equal.
C1_RoundTrip ==
  (Done /\ src # NoVal /\ ~HasBool(src)) =>
    /\ ser_result.k = "ok"
    /\ result.k = "ok"
    /\ Norm(result.v) = Norm(src)

\* C2: canonical ordering. A map is written with its entries in ascending
\* byte order of the key text, whatever order the producer supplied them in.
C2_CanonicalOrder ==
  (Encoded /\ src.k = "map" /\ ser_result.k = "ok") =>
    writer = Wire(VMap(SortByKey(src.es)))

(***************************************************************************)
(* The wire grammar, read left to right:                                   *)
(*   value = int | str | list | dict        int = "i" num "e"              *)
(*   num = "0" | ["-"] nonzero digit*       str = len ":" bytes            *)
(*   len = "0" | nonzero digit*             list = "l" value* "e"          *)
(*   dict = "d" (str value)* "e"                                           *)
(* A scan answers the position after the value, or why there is none.      *)
(***************************************************************************)
Truncated == 0 - 1   \* the input ended inside a scalar token

Unclosed == 0 - 2    \* the input ended inside an open list or dict

Malformed == 0 - 3   \* a byte the grammar does not allow, or invalid UTF-8

RECURSIVE ScanDigits(_, _, _)
\* the digits from position p on, up to the delimiter: [n, p] or a failure
ScanDigits(s, p, delim) ==
  IF p >= Len(s) THEN [n |-> Truncated, p |-> p]
  ELSE IF s[p + 1] = delim THEN [n |-> 0, p |-> p + 1]
  ELSE IF ~IsDigit(s[p + 1]) THEN [n |-> Malformed, p |-> p]
  ELSE ScanDigits(s, p + 1, delim)

\* num "e" or len ":" starting at position p (after the sign, if any)
ScanNumber(s, p, delim) ==
  IF p >= Len(s) THEN Truncated
  ELSE IF ~IsDigit(s[p + 1]) THEN Malformed
  ELSE IF s[p + 1] = DIGIT_ZERO
    THEN IF p + 1 >= Len(s) THEN Truncated
         ELSE IF s[p + 2] = delim THEN p + 2 ELSE Malformed
  ELSE LET r == ScanDigits(s, p + 1, delim) IN IF r.n < 0 THEN r.n ELSE r.p

RECURSIVE DecVal(_)
\* the number a run of decimal digits denotes; a run of ten digits or more
\* counts as 10^9, more than any input is long
DecVal(ds) ==
  IF ds = << >> THEN 0
  ELSE IF Len(ds) > 9 THEN 10 ^ 9
  ELSE 10 * DecVal(SubSeq(ds, 1, Len(ds) - 1)) + (ds[Len(ds)] - DIGIT_ZERO)

ScanInt(s, p) ==
  IF p + 1 >= Len(s) THEN Truncated
  ELSE IF s[p + 2] = MINUS
    THEN IF p + 2 < Len(s) /\ s[p + 3] = DIGIT_ZERO THEN Malformed
         ELSE ScanNumber(s, p + 2, END)
  ELSE ScanNumber(s, p + 1, END)

ScanStr(s, p) ==
  LET q == ScanNumber(s, p, COLON)
      n == DecVal(SubSeq(s, p + 1, q - 1))
  IN  IF q < 0 THEN q
      ELSE IF q + n > Len(s) THEN Truncated
      ELSE IF ~IsUtf8(SubSeq(s, q + 1, q + n)) THEN Malformed
      ELSE q + n

RECURSIVE ScanValue(_, _)
RECURSIVE ScanItems(_, _, _, _)
ScanValue(s, p) ==
  IF p >= Len(s) THEN Truncated
  ELSE IF s[p + 1] = LIST_OPEN THEN ScanItems(s, p + 1, FALSE, FALSE)
  ELSE IF s[p + 1] = DICT_OPEN THEN ScanItems(s, p + 1, TRUE, TRUE)
  ELSE IF s[p + 1] = INT_OPEN THEN ScanInt(s, p)
  ELSE IF IsDigit(s[p + 1]) THEN ScanStr(s, p)
  ELSE Malformed

\* the rest of an open list or dict; in a dict keys and values alternate
ScanItems(s, p, dict, key) ==
  IF p >= Len(s) THEN Unclosed
  ELSE IF s[p + 1] = END /\ (~dict \/ key) THEN p + 1
  ELSE IF dict /\ key /\ ~IsDigit(s[p + 1]) THEN Malformed
  ELSE LET q == ScanValue(s, p)
       IN  IF q = Truncated THEN Unclosed
           ELSE IF q < 0 THEN q
           ELSE ScanItems(s, q, dict, dict /\ ~key)

\* C3: top-level completion. After one root value is decoded, a next byte
\* that is neither 'e' nor the end of the input fails the call with
\* UnexpectedTrailingChars ("i1ei2e" fails); the check runs at the root only,
\* so the same bytes inside a list, "li1ei2ee", decode to [1, 2].
C3_TopLevelCompletion ==
  (Done /\ DecodeOnly) =>
    LET q == ScanValue(input, 0)
    IN  /\ (q >= 0 /\ q < Len(input) /\ input[q + 1] # END) =>
             result.k = "err" /\ result.e = "UnexpectedTrailingChars"
        /\ result.e = "UnexpectedTrailingChars" => stack = << >> /\ value # NoVal
        /\ input = <<108, 105, 49, 101, 105, 50, 101, 101>> =>
             result.k = "ok" /\ result.v = VList(<< VInt(I64(1)), VInt(I64(2)) >>)

\* C4: end of input inside a container. When the input ends while a list or
\* dict is still open, decoding fails with UnexpectedEOF: no input in which
\* an opened list or dict lacks its own closing 'e' decodes successfully.
C4_EofInsideContainer ==
  (Done /\ DecodeOnly /\ ScanValue(input, 0) = Unclosed) =>
    result.k = "err" /\ result.e = "UnexpectedEOF"

\* C5: value dispatch. The first byte of a value decides its kind: 'd' a
\* dict, 'l' a list, 'i' an integer, an ASCII digit a string; every other
\* byte, including every byte of 0x80 and above, is answered with the error
\* UnexpectedToken and never aborts the call.
C5_ValueDispatch ==
  (DecodeOnly /\ ctl # "start" /\ Len(input) > 0) =>
    LET b == input[1]
        kind == IF stack # << >> THEN stack[1].k ELSE value.k
    IN  /\ b \notin ({DICT_OPEN, LIST_OPEN, INT_OPEN} \cup 48..57) =>
              Done /\ result.k = "err" /\ result.e = "UnexpectedToken"
        /\ (stack # << >> \/ value # NoVal) =>
              kind = CASE b = DICT_OPEN -> "map"
                       [] b = LIST_OPEN -> "list"
                       [] b = INT_OPEN -> "int"
                       [] OTHER -> "str"

IsAscii(s) == \A n \in 1..Len(s) : s[n] < 128

\* C6: integer grammar. An integer token is 'i', an optional '-', digits and
\* 'e'; every byte that is not a digit where one is required, the first byte
\* after 'i' or '-' included, is answered with UnexpectedToken, and so are
\* "i-0e", "i03e", "i00e" and "ie".
C6_IntegerGrammar ==
  (Done /\ DecodeOnly /\ Len(input) > 0 /\ input[1] = INT_OPEN /\ IsAscii(input)
        /\ (\E n \in 2..Len(input) : input[n] = END)
        /\ ScanInt(input, 0) = Malformed) =>
    result.k = "err" /\ result.e = "UnexpectedToken"

\* the decimal digits of 2^63 - 1 and of 2^63
MaxDigits == <<57,50,50,51,51,55,50,48,51,54,56,53,52,55,55,53,56,48,55>>

MinDigits == <<57,50,50,51,51,55,50,48,51,54,56,53,52,55,55,53,56,48,56>>

\* the input is one well-formed integer token whose value is in
\* [-2^63, 2^63 - 1]
IsI64Token(s) ==
  /\ Len(s) > 0 /\ s[1] = INT_OPEN /\ ScanInt(s, 0) = Len(s)
  /\ LET neg == s[2] = MINUS
         ds == SubSeq(s, IF neg THEN 3 ELSE 2, Len(s) - 1)
     IN  \/ Len(ds) < Len(MaxDigits)
         \/ Len(ds) = Len(MaxDigits)
              /\ ~StrLess(IF neg THEN MinDigits ELSE MaxDigits, ds)

\* C7: integer value. A well-formed integer token in [-2^63, 2^63 - 1], both
\* ends included, decodes to exactly the value its digits denote and the
\* decoder consumes exactly the bytes of the token.
C7_IntegerValue ==
  (Done /\ DecodeOnly /\ IsI64Token(input)) =>
    /\ result.k = "ok" /\ result.v.k = "int"
    /\ Wire(result.v) = input
    /\ reader.pos = Len(input)

\* C8: string decode. A length of "0" must be followed by ':' (any other byte
\* is answered with UnexpectedToken) and gives the empty string; otherwise
\* the digits up to ':' give n, exactly n bytes follow, fewer is
\* UnexpectedEOF ("4:sp"), and bytes that are not UTF-8 are a Utf8 error.
C8_StringDecode ==
  (DecodeOnly /\ ctl \in {"de_end", "done"} /\ Len(input) > 0 /\ IsDigit(input[1])) =>
    LET q == ScanNumber(input, 0, COLON)
        n == DecVal(SubSeq(input, 1, q - 1))
        body == SubSeq(input, q + 1, q + n)
    IN  /\ (input[1] = DIGIT_ZERO /\ Len(input) >= 2 /\ input[2] # COLON) =>
             result.k = "err" /\ result.e = "UnexpectedToken" /\ result.tok = input[2]
        /\ (q >= 0 /\ q + n <= Len(input) /\ IsUtf8(body)) =>
             value = VStr(body) /\ (ctl = "de_end" => reader.pos = q + n)
        /\ (q >= 0 /\ q + n <= Len(input) /\ ~IsUtf8(body)) =>
             result.k = "err" /\ result.e = "Utf8"
        /\ (q >= 0 /\ q + n > Len(input)) =>
             result.k = "err" /\ result.e = "UnexpectedEOF"

\* C9: dict key position. Where a dict expects a key, 'e' closes the dict and
\* is consumed, an ASCII digit starts a key, and any other byte is answered
\* with UnexpectedToken.
C9_DictKeyPosition ==
  [][ /\ (~Stream /\ ctl = "map_key" /\ de_peek_char(reader) \notin ({END, None} \cup 48..57)) =>
           /\ ctl' = "done"
           /\ result'.k = "err" /\ result'.e = "UnexpectedToken"
           /\ result'.tok = de_peek_char(reader)
      /\ (~Stream /\ ctl = "map_key" /\ de_peek_char(reader) = END) => ctl' = "map_end"
      /\ (~Stream /\ ctl = "map_end") => reader'.pos = reader.pos + 1 ]_vars

RECURSIVE WrittenBefore(_)
RECURSIVE WrittenBeforeElts(_, _)
\* the bytes that reach the sink before the first boolean of v is met: a
\* list has written 'l' and its earlier elements, a map has written nothing
WrittenBefore(v) ==
  IF v.k = "list" THEN <<108>> \o WrittenBeforeElts(v.xs, 1) ELSE << >>

WrittenBeforeElts(xs, n) ==
  IF HasBool(xs[n]) THEN WrittenBefore(xs[n])
  ELSE Wire(xs[n]) \o WrittenBeforeElts(xs, n + 1)

\* C10: booleans cannot be encoded. A boolean at the root or at any depth
\* makes the encode fail with UnsupportedType(Bool), the same for true and
\* false, and the boolean itself contributes no byte to the output; values
\* without a boolean encode.
C10_BoolUnsupported ==
  Encoded =>
    IF HasBool(src)
      THEN /\ ser_result = [k |-> "err", e |-> "UnsupportedType(Bool)"]
           /\ writer = WrittenBefore(src)
           /\ Done /\ result = NoResult
      ELSE ser_result.k = "ok"

\* the encode of [0, true] has failed after "li0e" was written
C10_Witness ==
  /\ src = VList(<< VInt(I64(0)), VBool(TRUE) >>)
  /\ Done
  /\ ser_result = [k |-> "err", e |-> "UnsupportedType(Bool)"]
  /\ writer = <<108, 105, 48, 101>>

\* C11: numeric range. An unsigned integer above 2^63 - 1, handed over as a
\* u64 or as a usize, fails with NumberOutOfRange and nothing of it is
\* written; 2^63 - 1 itself is written and 2^63 fails.
C11_UnsignedRange ==
  (Written /\ src.k \in { "u64", "usize" }) =>
    IF src.i[4] > I64Max[4]
      THEN ser_result = [k |-> "err", e |-> "NumberOutOfRange"] /\ writer = << >>
      ELSE ser_result.k = "ok"

IntKinds == { "int", "isize", "i8", "i16", "i32", "usize", "u8", "u16", "u32", "u64" }

SignedKinds == { "int", "isize", "i8", "i16", "i32" }

RECURSIVE DigitsValue(_)
\* the number a run of decimal digits denotes, on five limbs
DigitsValue(ds) ==
  IF ds = << >> THEN << 0, 0, 0, 0, 0 >>
  ELSE MulAdd(DigitsValue(SubSeq(ds, 1, Len(ds) - 1)), 10, ds[Len(ds)] - DIGIT_ZERO)

\* the integer value v is negative; its magnitude on five limbs
Negative(v) == v.k \in SignedKinds /\ IsNeg(v.i)

Magnitude(v) == IF Negative(v) THEN NegX(Ext(v.i)) ELSE v.i \o << 0 >>

\* C12: integer rendering. Every integer the encoder accepts, of any signed or
\* unsigned width, is written as 'i', its decimal digits, 'e', with '-' only
\* when it is negative and without leading zeros: 10 is "i10e", -10 is
\* "i-10e", 0 is "i0e".
C12_IntegerRendering ==
  ((Written \/ Encoded) /\ src.k \in IntKinds /\ ser_result.k = "ok") =>
    LET n == Len(writer)
        ds == SubSeq(writer, IF Negative(src) THEN 3 ELSE 2, n - 1)
    IN  /\ n >= 3 /\ writer[1] = 105 /\ writer[n] = 101
        /\ Negative(src) => writer[2] = 45
        /\ ds # << >> /\ \A k \in 1..Len(ds) : IsDigit(ds[k])
        /\ ds[1] = DIGIT_ZERO => Len(ds) = 1
        /\ DigitsValue(ds) = Magnitude(src)
        /\ src.i = I64(10) => writer = << 105, 49, 48, 101 >>
        /\ src.i = I64(-10) /\ Negative(src) => writer = << 105, 45, 49, 48, 101 >>
        /\ src.i = I64(0) => writer = << 105, 48, 101 >>

\* the i32 -10 has been written as "i-10e"
C12_Witness ==
  /\ Written
  /\ src = VNum("i32", I64(-10))
  /\ ser_result.k = "ok"
  /\ writer = << 105, 45, 49, 48, 101 >>

\* the UTF-8 bytes of 'a', 'é', '€' and U+1F600
CharBytes(c) ==
  CASE c = 97 -> << 97 >>
    [] c = 233 -> << 195, 169 >>
    [] c = 8364 -> << 226, 130, 172 >>
    [] c = 128512 -> << 240, 159, 152, 128 >>

\* C13: text rendering. A string is written as the decimal count of its bytes
\* (not of its characters), ':', then the bytes as they are; the empty string
\* is "0:", and a char is written as the string of its UTF-8 bytes.
C13_TextRendering ==
  ((Written \/ Encoded) /\ src.k \in { "str", "char" }) =>
    LET payload == IF src.k = "str" THEN src.s ELSE CharBytes(src.i[1])
    IN  /\ ser_result.k = "ok"
        /\ \E c \in 2..Len(writer) :
             LET prefix == SubSeq(writer, 1, c - 1)
             IN  /\ writer[c] = COLON
                 /\ \A k \in 1..(c - 1) : IsDigit(prefix[k])
                 /\ prefix[1] = DIGIT_ZERO => c = 2
                 /\ DecVal(prefix) = Len(payload)
                 /\ SubSeq(writer, c + 1, Len(writer)) = payload
        /\ payload = << >> => writer = << 48, 58 >>

\* the char '€' has been written as "3:" and its three bytes
C13_Witness ==
  /\ Written
  /\ src = VChar(8364)
  /\ writer = << 51, 58, 226, 130, 172 >>

\* the decimal digits of a byte
ByteDec(b) ==
  IF b < 10 THEN << 48 + b >>
  ELSE IF b < 100 THEN << 48 + (b \div 10), 48 + (b % 10) >>
  ELSE << 48 + (b \div 100), 48 + ((b \div 10) % 10), 48 + (b % 10) >>

\* the encodings of the elements xs, each on its own, one after the other
EachEncoded(xs) == Concat([n \in 1..Len(xs) |-> to_vec(xs[n]).w])

\* the producer declares as many elements as it supplies
DeclaredRight(v) ==
  \/ v.k \in { "list", "tuple", "tuple_struct" }
  \/ v.k = "seq" /\ v.i[1] = Len(v.xs)

\* C14: list rendering. A sequence, tuple or tuple struct that declares the
\* number of elements it supplies is written as 'l', the encoding of each
\* element in the order supplied, 'e'; a sequence declared empty has its "le"
\* written when it is opened; a byte slice is written as the list of its bytes
\* as integers, [1, 2, 3] as "li1ei2ei3ee".
C14_ListRendering ==
  ((Written \/ Encoded) /\ ser_result.k = "ok") =>
    /\ DeclaredRight(src) => writer = << 108 >> \o EachEncoded(src.xs) \o << 101 >>
    /\ (src.k = "seq" /\ src.i[1] = 0) =>
         Len(writer) >= 2 /\ SubSeq(writer, 1, 2) = << 108, 101 >>
    /\ src.k = "bytes" =>
         writer = << 108 >>
                  \o Concat([n \in 1..Len(src.s) |-> << 105 >> \o ByteDec(src.s[n]) \o << 101 >>])
                  \o << 101 >>
    /\ src = VBytes(<< 1, 2, 3 >>) => writer = << 108, 105, 49, 101, 105, 50, 101, 105, 51, 101, 101 >>

\* the byte slice [1, 2, 3] has been written as "li1ei2ei3ee"
C14_Witness ==
  /\ Written
  /\ src = VBytes(<< 1, 2, 3 >>)
  /\ ser_result.k = "ok"
  /\ writer = << 108, 105, 49, 101, 105, 50, 101, 105, 51, 101, 101 >>

\* the buffer serialize_map_key/serialize_map_value hold for one side of an entry
EntryBuf(x) == to_string(x).w

\* the entries whose key bytes are not supplied again later in the map
LastSupplied(es) ==
  { n \in 1..Len(es) :
      \A m \in (n + 1)..Len(es) : EntryBuf(es[m][1]) # EntryBuf(es[n][1]) }

\* the orders in which the members of the set S can be written
Orders(S) ==
  { o \in [1..Cardinality(S) -> S] : \A a, b \in DOMAIN o : o[a] = o[b] => a = b }

\* C15: duplicate map keys. When the same key bytes are supplied more than
\* once within one map, the last value supplied for the key wins; the dict is
\* 'd', one key buffer and value buffer per distinct key, each verbatim, 'e'.
C15_DuplicateKeys ==
  ((Written \/ Encoded) /\ src.k = "map" /\ ser_result.k = "ok") =>
    \E o \in Orders(LastSupplied(src.es)) :
      writer = << 100 >>
               \o Concat([n \in DOMAIN o |->
                            EntryBuf(src.es[o[n]][1]) \o EntryBuf(src.es[o[n]][2])])
               \o << 101 >>

\* the map that supplies "a" twice, with 1 and then with "a", is written as
\* "d1:a1:ae"
C15_Witness ==
  /\ Written
  /\ src = VMap(<< << VStr(<< 97 >>), VInt(I64(1)) >>, << VStr(<< 97 >>), VStr(<< 97 >>) >> >>)
  /\ ser_result.k = "ok"
  /\ writer = << 100, 49, 58, 97, 49, 58, 97, 101 >>

VariantKinds == { "newtype_variant", "tuple_variant", "struct_variant" }

\* the payload a non-unit variant is to carry: the inner value's encoding, the
\* list of the field encodings, or the dict of field name to field encoding
\* with the field names in ascending byte order
VariantPayload(v) ==
  CASE v.k = "newtype_variant" -> to_vec(v.xs[1]).w
    [] v.k = "tuple_variant" -> << 108 >> \o EachEncoded(v.xs) \o << 101 >>
    [] v.k = "struct_variant" ->
         LET fs == SortByKey(v.es)
         IN  << 100 >>
             \o Concat([n \in 1..Len(fs) |->
                          ByteDec(Len(fs[n][1].s)) \o << 58 >> \o fs[n][1].s
                          \o to_vec(fs[n][2]).w])
             \o << 101 >>

\* C17: non-unit enum variants. A newtype, tuple or struct variant is written
\* as the one-entry dict 'd', the tag name as a string, the payload, 'e', with
\* exactly one 'e' closing the outer dict after the payload, a tuple variant
\* of zero fields included.
C17_NonUnitVariants ==
  (Written /\ src.k \in VariantKinds) =>
    /\ ser_result.k = "ok"
    /\ writer = << 100 >> \o ByteDec(Len(src.s)) \o << 58 >> \o src.s
                \o VariantPayload(src) \o << 101 >>
    /\ src = VTupleVariant(<< 86, 97, 114, 105, 97, 110, 116 >>, << >>) =>
         writer = << 100, 55, 58, 86, 97, 114, 105, 97, 110, 116, 108, 101, 101 >>

\* the unit value or an absent optional
Absent(v) == v.k \in { "unit", "opt_none" }

\* what an entry's value adds after the key bytes
ValueBytes(v) == IF Absent(v) THEN << >> ELSE to_vec(v).w

DistinctKeys(es) == LastSupplied(es) = 1..Len(es)

\* C18: absent and unit values. Encoding the unit value or None succeeds and
\* writes zero bytes in every position: at the root the sink stays empty, a
\* list holds only the encodings of its other elements, a dict entry is the
\* key bytes followed by nothing; Some(x) encodes exactly as x.
C18_AbsentAndUnit ==
  Written =>
    /\ Absent(src) => ser_result = [k |-> "ok", e |-> ""] /\ writer = << >>
    /\ src.k = "some" =>
         /\ ser_result = [k |-> to_vec(src.xs[1]).k, e |-> to_vec(src.xs[1]).e]
         /\ writer = to_vec(src.xs[1]).w
    /\ (DeclaredRight(src) /\ \E n \in DOMAIN src.xs : Absent(src.xs[n])) =>
         /\ ser_result.k = "ok"
         /\ writer = << 108 >>
                     \o EachEncoded(SelectSeq(src.xs, LAMBDA x : ~Absent(x)))
                     \o << 101 >>
    /\ (src.k = "map" /\ DistinctKeys(src.es) /\ \E n \in DOMAIN src.es : Absent(src.es[n][2])) =>
         /\ ser_result.k = "ok"
         /\ \E o \in Orders(1..Len(src.es)) :
              writer = << 100 >>
                       \o Concat([n \in DOMAIN o |->
                                    EntryBuf(src.es[o[n]][1]) \o ValueBytes(src.es[o[n]][2])])
                       \o << 101 >>

\* the map {"a": None} has been written as "d1:ae": the key and nothing more
C18_Witness ==
  /\ Written
  /\ src = VMap(<< << VStr(<< 97 >>), VNone >> >>)
  /\ ser_result.k = "ok"
  /\ writer = << 100, 49, 58, 97, 101 >>

C20_ListCloseConsumed ==
  [][ (~Stream /\ ctl = "seq_end" /\ de_peek_char(reader) = END) =>
        reader'.pos = reader.pos + 1 ]_vars

RECURSIVE RunDecoder(_, _)
\* the result from_read returns when the decoder runs on from the state st
RunDecoder(st, checks) ==
  IF st.ctl = "done" THEN st.result
  ELSE IF st.ctl = "de_end" THEN from_read_end(st.reader, st.value)
  ELSE RunDecoder(
         CASE st.ctl = "start" -> from_read(st.reader, checks)
           [] st.ctl = "seq_visit" -> SeqVisitor_visit(st.reader, st.stack, checks)
           [] st.ctl = "seq_end" -> SeqVisitor_end(st.reader, st.stack)
           [] st.ctl = "map_key" -> MapVisitor_visit_key(st.reader, st.stack, checks)
           [] st.ctl = "map_value" -> MapVisitor_visit_value(st.reader, st.stack, checks)
           [] st.ctl = "map_end" -> MapVisitor_end(st.reader, st.stack),
         checks)

\* what from_slice returns for the bytes
FromSliceResult(bytes, checks) ==
  RunDecoder([reader |-> SliceRead_new(bytes), stack |-> << >>, ctl |-> "start",
              value |-> NoVal, result |-> NoResult], checks)

\* a result without the position an error carries
Outcome(r) == [k |-> r.k, e |-> r.e, tok |-> r.tok, v |-> r.v]

Decoding == ctl \notin { "encode", "to_writer", "written" }

\* C21: byte-source equivalence. For the slice, the text and the stream
\* source, after the calls the decoder has made, peek returns the byte the
\* following next returns and none exactly when that next reports the end of
\* the input; the decoder returns from from_string and from from_reader what
\* it returns from from_slice on the same bytes.
C21_ByteSourceEquivalence ==
  /\ Decoding => de_peek_char(reader) = Read_next_char(reader).ch
  /\ (Done /\ Stream) =>
       Outcome(result) = Outcome(FromSliceResult(reader.iter.bytes, overflow_checks))
  /\ (Done /\ src # NoVal /\ ser_result.k = "ok") =>
       Outcome(result) = Outcome(FromSliceResult(reader.slice, overflow_checks))

MapKinds == { "map", "struct" }

\* rendering x on its own fails
Fails(x) == to_string(x).k # "ok"

\* a map or struct with a key or value whose rendering fails
FailsInside(v) ==
  v.k \in MapKinds /\ \E n \in DOMAIN v.es : Fails(v.es[n][1]) \/ Fails(v.es[n][2])

\* the errors of the keys and values of v that fail
InsideErrors(v) ==
  { to_string(v.es[p[1]][p[2]]).e :
      p \in { q \in (DOMAIN v.es) \X (1..2) : Fails(v.es[q[1]][q[2]]) } }

\* the sink that held w when v was opened, after the first n entries of v
SinkWithin(w, v, n) ==
  IF v.k = "map"
    THEN Bind(serialize_map(w, Len(v.es)), LAMBDA o :
           MapEntries(o.w, o.st, SubSeq(v.es, 1, n)).w)
  ELSE Bind(serialize_struct(w, Len(v.es)), LAMBDA o :
         StructElts(o.w, o.st, SubSeq(v.es, 1, n)).w)

\* C22: map output is buffered. Between the opening of a map or struct and
\* its close no byte of it is written to the sink; when the rendering of a key
\* or value fails, the caller gets that error and the sink holds no byte of
\* the map.
C22_MapBuffered ==
  (Written \/ Encoded) =>
    /\ src.k \in MapKinds =>
         \A n \in 0..Len(src.es) : SinkWithin(<< 108 >>, src, n) = << 108 >>
    /\ FailsInside(src) =>
         /\ ser_result.k = "err" /\ ser_result.e \in InsideErrors(src)
         /\ writer = << >>
    /\ src.k = "list" =>
         \A n \in DOMAIN src.xs :
           (FailsInside(src.xs[n]) /\ \A m \in 1..(n - 1) : ~Fails(src.xs[m])) =>
             /\ ser_result.k = "err" /\ ser_result.e \in InsideErrors(src.xs[n])
             /\ writer = << 108 >> \o EachEncoded(SubSeq(src.xs, 1, n - 1))

\* the encode of the struct { a: 1, b: true } has failed with nothing written
C22_Witness ==
  /\ Written
  /\ src = VStruct(<< << VStr(<< 97 >>), VInt(I64(1)) >>, << VStr(<< 98 >>), VBool(TRUE) >> >>)
  /\ ser_result = [k |-> "err", e |-> "UnsupportedType(Bool)"]
  /\ writer = << >>

RECURSIVE WrappedDigits(_)
\* the digits ds accumulated as acc = 10 * acc + digit modulo 2^64
WrappedDigits(ds) ==
  IF ds = << >> THEN I64(0)
  ELSE Wrap(MulAdd(Ext(WrappedDigits(SubSeq(ds, 1, Len(ds) - 1))), 10,
                   ds[Len(ds)] - DIGIT_ZERO))

\* the digits denote a magnitude above 2^63 - 1
OutOfRange(ds) ==
  \/ Len(ds) > Len(MaxDigits)
  \/ Len(ds) = Len(MaxDigits) /\ StrLess(MaxDigits, ds)

\* C23: decode overflow wraps. When the digits of an integer token or of a
\* string length denote a magnitude outside the signed 64-bit range, decoding
\* does not fail for it: the accumulator acc = 10 * acc + digit wraps modulo
\* 2^64, an integer token decodes to the wrapped value with the sign applied
\* and a string is read with the wrapped length.
C23_DecodeOverflowWraps ==
  (Done /\ DecodeOnly /\ Len(input) > 1) =>
    /\ (input[1] = INT_OPEN /\ ScanInt(input, 0) = Len(input)) =>
         LET neg == input[2] = MINUS
             ds == SubSeq(input, IF neg THEN 3 ELSE 2, Len(input) - 1)
             acc == WrappedDigits(ds)
         IN  OutOfRange(ds) =>
               /\ result.k = "ok"
               /\ result.v = VInt(IF neg THEN Wrap(NegX(Ext(acc))) ELSE acc)
    /\ (IsDigit(input[1]) /\ ScanNumber(input, 0, COLON) > 0) =>
         LET q == ScanNumber(input, 0, COLON)
             acc == WrappedDigits(SubSeq(input, 1, q - 1))
             rest == SubSeq(input, q + 1, Len(input))
         IN  (OutOfRange(SubSeq(input, 1, q - 1)) /\ acc = I64(Len(rest)) /\ IsUtf8(rest)) =>
               result.k = "ok" /\ result.v = VStr(rest)
    /\ input = << 105 >> \o TwoTo64Plus1 \o << 101 >> =>
         result.k = "ok" /\ result.v = VInt(I64(1))
    /\ input = TwoTo64Plus1 \o << 58, 97 >> =>
         result.k = "ok" /\ result.v = VStr(<< 97 >>)

\* the bytes are exactly one string token <len>:<bytes>
IsStrToken(buf) == Len(buf) > 0 /\ IsDigit(buf[1]) /\ ScanStr(buf, 0) = Len(buf)

\* C24: emitted dict keys are strings. In every dict the encoder writes, each
\* key position holds a string token <len>:<bytes>, whatever the type of the
\* key the producer supplies: an integer, list, unit or None key is not
\* written as a dict key.
C24_KeysAreStrings ==
  ((Written \/ Encoded) /\ src.k = "map" /\ ser_result.k = "ok") =>
    \E o \in Orders(LastSupplied(src.es)) :
      /\ writer = << 100 >>
                  \o Concat([n \in DOMAIN o |->
                               EntryBuf(src.es[o[n]][1]) \o EntryBuf(src.es[o[n]][2])])
                  \o << 101 >>
      /\ \A n \in DOMAIN o : IsStrToken(EntryBuf(src.es[o[n]][1]))

\* C25: sequence framing. For serialize_seq(len), k calls of
\* serialize_seq_elt and serialize_seq_end, for every declared len, None,
\* Some(0) or Some(n), and every k, equal to the declared length or not, the
\* sink receives one 'l', the k element encodings and then one closing 'e'.
C25_SequenceFraming ==
  (Written /\ src.k = "seq") =>
    /\ ser_result.k = "ok"
    /\ writer = << 108 >> \o EachEncoded(src.xs) \o << 101 >>

\* a step of a list or dict loop that goes on with the container afterwards
LoopGoesOn ==
  /\ ctl \in { "seq_visit", "map_key", "map_value" }
  /\ ctl' \notin { "seq_end", "map_end", "done" }

\* C26: decoding terminates. from_slice on any finite input ends, after
\* finitely many steps, with a value or an error value; every iteration of
\* the list and dict loops that does not end the container consumes at least
\* one byte, so the position never decreases, strictly increases per decoded
\* element and never exceeds the length of the input.
C26_DecodingTerminates ==
  /\ [](DecodeOnly => reader.pos <= Len(input))
  /\ [][ DecodeOnly =>
           /\ reader'.pos >= reader.pos
           /\ LoopGoesOn => reader'.pos > reader.pos ]_vars
  /\ (DecodeOnly /\ ctl = "start") ~> (Done /\ result.k \in { "ok", "err" })

=============================================================================
